---- MODULE Spec2Model ----
(***************************************************************************)
(* reqmon: a replacement for Module.prototype.require that watches the     *)
(* files of the units loaded below the unit that called watch() and        *)
(* reloads them when their files change (src/reqmon.js).                   *)
(*                                                                         *)
(* One action is one turn of the event loop: the whole synchronous call    *)
(* tree of a watcher callback, a timer callback, a require() call or a     *)
(* public call.  The call tree is computed by recursive operators over a   *)
(* record that holds the process-wide state; "trace" is the sequence of    *)
(* observable steps of the last turn.                                      *)
(***************************************************************************)
EXTENDS Integers, Sequences, FiniteSets, TLC

----------------------------------------------------------------------------
(* The program under watch: the example of src/README.md, lines 50-82,     *)
(* with a third-party package (N) that sister.js and grandchild.js load.   *)

Builtin == "http"

\* canonical paths of the units: A main.js, B child.js, C sister.js,
\* D grandchild.js, N a package under node_modules, R reqmon.js itself
Units == {"A", "B", "C", "D", "N", "R"}

NoPath == "<unresolved>"

Rel(id)  == [kind |-> "rel",  id |-> id]
Bare(id) == [kind |-> "bare", id |-> id]
Abs(id)  == [kind |-> "abs",  id |-> id]

Req(n) == [op |-> "require", name |-> n, opts |-> << >>]
CallWatch(o) == [op |-> "watch", name |-> Bare("R"), opts |-> o]

\* the top-level code of each unit, as the sequence of its load requests;
\* g is the program: g.opts is the options child.js passes to watch(), and
\* when g.cyclic, grandchild.js requires child.js in its turn
Body(p, g) ==
  CASE p = "A" -> << Req(Rel("B")), Req(Rel("C")) >>
    [] p = "B" -> << Req(Rel("R")), CallWatch(g.opts), Req(Rel("D")) >>
    [] p = "C" -> << Req(Bare("N")) >>
    [] p = "D" -> << Req(Bare(Builtin)), Req(Bare("N")) >>
                    \o (IF g.cyclic THEN << Req(Rel("B")) >> ELSE << >>)
    [] OTHER   -> << >>

\* what a file can hold: "ok" exports no unload hook, "hook" exports
\* reqmon_on_file_change, "badhook" exports one that throws, "throw" fails at
\* the end of its top-level code
Contents(p) ==
  CASE p = "D" -> {"hook", "badhook", "throw"}
    [] p = "B" -> {"ok", "throw"}
    [] OTHER   -> {"ok"}

InitialContent(p) == IF p = "D" THEN "hook" ELSE "ok"

\* the options child.js passes to watch(): none, as in the example, or an
\* ignore list that names child.js and grandchild.js
ChildOptions ==
  { << >>,
    [ignore |-> [kind |-> "arr", val |-> << [kind |-> "str", val |-> "B"],
                                            [kind |-> "str", val |-> "D"] >>]] }

----------------------------------------------------------------------------
(* Program constants and bounds *)

DEFAULT_TIMEOUT == 2000
DEFAULT_DEBUG == FALSE
DEFAULT_CONSOLE == FALSE
DEFAULT_RELOAD_CHILDREN == FALSE

\* the regular expression /\/node_modules\// as the set of paths it matches
NodeModulesRe == [kind |-> "re", val |-> {"N"}]
DefaultIgnore == << NodeModulesRe >>

NullArg == [kind |-> "null", val |-> {}]

\* depth of nested loads after which the host's stack is exhausted
MaxDepth == 8

\* time passes in steps of this many milliseconds
TickSteps == {500}

\* the arguments of timeout() in use
TimeoutChoices == {0, 500, 1000}

\* the longest ignore list
MaxIgnore == 2

\* the names the units request at run time
RequestNames == { Rel("C"), Rel("D"), Rel("R"), Bare("N"), Bare(Builtin), Abs("D") }

\* the arguments of ignore() in use
IgnoreArgs == { << NullArg >>,
                << [kind |-> "fn", val |-> {"D", "R"}] >>,
                << NullArg, [kind |-> "str", val |-> "C"] >> }

\* the patterns handed to ignore(): a path, a function, a regular expression
IgnorePatterns == { [kind |-> "str", val |-> "C"],
                    [kind |-> "fn", val |-> {"D", "R"}],
                    NodeModulesRe }

\* every argument list of ignore() of up to MaxIgnore patterns, with and
\* without a leading null
IgnoreLists ==
  LET pats == UNION {[1..n -> IgnorePatterns] : n \in 0..MaxIgnore}
  IN pats \cup {<< NullArg >> \o l : l \in pats}

\* the options of watch() in use
WatchOptions == { << >>,
                  [timeout |-> 500, debug |-> TRUE, console |-> TRUE],
                  [reload_children |-> TRUE,
                   ignore |-> [kind |-> "arr", val |-> << NodeModulesRe, [kind |-> "str", val |-> "D"] >>]] }

----------------------------------------------------------------------------
(* State *)

VARIABLES
  paths,            \* paths[p]: "none", or the state of the watcher stored at p
  ignore,           \* the ignore list
  timeouts,         \* timeouts[p]: {} or {the ms left of p's cooldown timer}
  TIMEOUT, DEBUG, CONSOLE, RELOAD_CHILDREN,
  require_,         \* Module.prototype.require
  reqmon_require,   \* Module.prototype.reqmon_require
  parent,           \* module.parent of reqmon.js
  prog,             \* the program that runs: see Body
  cache,            \* require.cache: what each path's exports are
  file,             \* what each file holds now
  started,          \* main.js has been run
  trace,            \* the steps of the last turn
  last,             \* the last turn: which call it was, and its outcome
  since             \* since[p]: {[t |-> ms since p's last accepted change, T |-> TIMEOUT
                    \* then]}, or {} when there was none or more than T ms have passed
VARIABLE
  ran               \* ran[p]: the same for the last time a file change made p execute

vars == << paths, ignore, timeouts, TIMEOUT, DEBUG, CONSOLE, RELOAD_CHILDREN,
           require_, reqmon_require, parent, prog, cache, file, started, trace,
           last, since, ran >>

\* the process-wide state as one record, for the operators below
St == [ paths |-> paths, ignore |-> ignore, timeouts |-> timeouts,
        TIMEOUT |-> TIMEOUT, DEBUG |-> DEBUG, CONSOLE |-> CONSOLE,
        RELOAD_CHILDREN |-> RELOAD_CHILDREN,
        require_ |-> require_, reqmon_require |-> reqmon_require,
        parent |-> parent, prog |-> prog, cache |-> cache, file |-> file,
        trace |-> << >>, err |-> "none", ret |-> "none" ]

\* F(v), with v evaluated once
Bind(v, F(_)) == CHOOSE r \in {F(x) : x \in {v}} : TRUE

Ev(e, p) == [ev |-> e, path |-> p]

\* the step of a turn in which name n is handed to the saved loader
Delegated(n) == [ev |-> "delegate", path |-> n.id, kind |-> n.kind]
Emit(s, e, p) == [s EXCEPT !.trace = Append(@, Ev(e, p))]
Throw(s, e) == [s EXCEPT !.err = e, !.ret = "none"]
Return(s, p) == [s EXCEPT !.ret = p]

----------------------------------------------------------------------------
(* Name resolution *)

\* the host's resolution of a name requested by a unit: every name of the
\* program resolves, relative names against the requesting unit's directory
HostResolve(caller, n) == n.id

\* path.join(path.dirname(this.filename), fpath): the units share a directory
Rebase(this, n) == Abs(n.id)

\* require.resolve(mfpath), called inside reqmon.js: a relative name is looked
\* up in reqmon's own directory, where no unit of the program lives
require_resolve(n) == IF n.kind = "rel" THEN NoPath ELSE n.id

IsAbsolute(p) == p # Builtin

----------------------------------------------------------------------------
(* reqmon_ignored *)

RECURSIVE IgnoredFrom(_, _, _)
IgnoredFrom(fpath, ign, i) ==
  IF i > Len(ign) THEN FALSE
  ELSE LET m == ign[i]
           match == CASE m.kind = "arr" -> IgnoredFrom(fpath, m.val, 1)
                      [] m.kind = "fn"  -> fpath \in m.val
                      [] m.kind = "re"  -> fpath \in m.val
                      [] OTHER          -> m.val = fpath
       IN IF match THEN TRUE ELSE IgnoredFrom(fpath, ign, i + 1)

reqmon_ignored(fpath, ign) == IgnoredFrom(fpath, ign, 1)

----------------------------------------------------------------------------
(* The public calls that only set module-level variables *)

\* each returns the instance
api_timeout(s, tm) == [s EXCEPT !.TIMEOUT = tm, !.ret = "reqmon"]
api_debug(s, nd) == [s EXCEPT !.DEBUG = nd, !.ret = "reqmon"]
api_console(s, c) == [s EXCEPT !.CONSOLE = c, !.ret = "reqmon"]
api_reload_children(s, c) == [s EXCEPT !.RELOAD_CHILDREN = c, !.ret = "reqmon"]

\* ignore() that only ever appends
api_ignore_append(s, list) == [s EXCEPT !.ignore = s.ignore \o list, !.ret = "reqmon"]

api_ignore(s, list) ==
  LET reset == Len(list) > 0 /\ list[1].kind = "null"
      base  == IF reset THEN << >> ELSE s.ignore
      rest  == IF reset THEN Tail(list) ELSE list
  IN [s EXCEPT !.ignore = IF Len(rest) > 0 THEN base \o rest ELSE base,
               !.ret = "reqmon"]

api_list(s) == {p \in Units : s.paths[p] # "none"}

api_unwatch(s) ==
  [s EXCEPT !.paths = [p \in Units |-> IF s.paths[p] = "none" THEN "none" ELSE "closed"],
            !.require_ = s.reqmon_require,
            !.reqmon_require = "undefined",
            !.ret = "reqmon"]

----------------------------------------------------------------------------
(* The watch registry *)

reqmon_monitor(s, rpath) ==
  IF s.paths[rpath] # "none" THEN s
  ELSE Emit([s EXCEPT !.paths[rpath] = "open"], "monitor", rpath)

\* watch() from "process options" on
watch_install(s, options) ==
       LET has(f) == f \in DOMAIN options
           s1 == IF has("ignore") THEN api_ignore(s, << options.ignore >>) ELSE s
           s2 == IF has("debug") THEN api_debug(s1, options.debug) ELSE s1
           s3 == IF has("console") THEN api_console(s2, options.console) ELSE s2
           s4 == IF has("timeout") THEN api_timeout(s3, options.timeout) ELSE s3
           s5 == IF has("reload_children")
                 THEN api_reload_children(s4, options.reload_children) ELSE s4
           installed(s6) ==
             Return(IF s6.parent # "none" THEN reqmon_monitor(s6, s6.parent) ELSE s6,
                    "reqmon")
       IN Bind([s5 EXCEPT !.reqmon_require = s.require_, !.require_ = "hook"], installed)

\* watch() that returns nothing when reqmon is set up already
api_watch_bare(s, options) ==
  IF s.reqmon_require # "undefined" THEN Return(s, "undefined")
  ELSE watch_install(s, options)

api_watch(s, options) ==
  IF s.reqmon_require # "undefined" THEN Return(s, "reqmon")
  ELSE watch_install(s, options)

----------------------------------------------------------------------------
(* The loaders.  fuel is the stack depth left. *)

ServedFromCache_always(s, rpath) == s.cache[rpath] # "absent"

\* the module is already loaded and is returned from the cache
ServedFromCache(s, rpath) == ~s.RELOAD_CHILDREN /\ s.cache[rpath] # "absent"

NotMonitored_never(s, this) == FALSE

\* the requiring unit is not monitored, so its dependencies are not either
NotMonitored(s, this) == s.parent # "none" /\ s.paths[this] = "none"

IsSelf_never(rpath) == FALSE

\* reqmon is required by reqmon
IsSelf(rpath) == rpath = "R"

RECURSIVE ExecFrom(_, _, _, _)
RECURSIVE OrigRequire(_, _, _, _)
RECURSIVE HookRequire(_, _, _, _)
RECURSIVE CallRequire(_, _, _, _)
RECURSIVE CallSaved(_, _, _, _)
RECURSIVE reqmon_load(_, _, _, _)

\* this.require(name), as a unit's code calls it
CallRequire(s, this, n, fuel) ==
  IF fuel = 0 THEN Throw(s, "overflow")
  ELSE CASE s.require_ = "original" -> OrigRequire(s, this, n, fuel - 1)
         [] s.require_ = "hook"     -> HookRequire(s, this, n, fuel - 1)
         [] OTHER                   -> Throw(s, "TypeError")

\* this.reqmon_require(name)
CallSaved(s, this, n, fuel) ==
  LET s1 == [s EXCEPT !.trace = Append(@, Delegated(n))] IN
  IF fuel = 0 THEN Throw(s1, "overflow")
  ELSE CASE s.reqmon_require = "original" -> OrigRequire(s1, this, n, fuel - 1)
         [] s.reqmon_require = "hook"     -> HookRequire(s1, this, n, fuel - 1)
         [] OTHER                         -> Throw(s1, "TypeError")

\* the top-level code of unit p from its i-th statement on
ExecFrom(s, p, i, fuel) ==
  IF s.err # "none" \/ i > Len(Body(p, s.prog)) THEN s
  ELSE LET st == Body(p, s.prog)[i]
           rest(s1) == ExecFrom(s1, p, i + 1, fuel)
       IN Bind(IF st.op = "require" THEN CallRequire(s, p, st.name, fuel)
               ELSE api_watch(s, st.opts),
               rest)

\* the host's loader: a cached unit is returned, any other is entered in the
\* cache, executed, and removed from the cache again when it throws
OrigRequire(s, caller, n, fuel) ==
  LET p == HostResolve(caller, n)
      entered == Emit([s EXCEPT !.cache[p] = "loading"], "exec", p)
      executed(s2) ==
        IF s2.err # "none" THEN [s2 EXCEPT !.cache[p] = "absent"]
        ELSE IF s2.file[p] = "throw"
             THEN Throw([s2 EXCEPT !.cache[p] = "absent"], "throw")
             ELSE Return([s2 EXCEPT !.cache[p] = s2.file[p]], p)
  IN IF p = Builtin THEN Return(s, p)
     ELSE IF s.cache[p] # "absent" THEN Return(s, p)
     ELSE Bind(IF p = "R" THEN [entered EXCEPT !.parent = caller]
               ELSE ExecFrom(entered, p, 1, fuel),
               executed)

\* a forced load that clears the cache only where it holds an entry
reqmon_load_if_cached(s, this, rpath, fuel) ==
  LET old == s.cache[rpath]
      s0 == Emit(s, "load", rpath)
      s1 == IF old \in {"hook", "badhook"} THEN Emit(s0, "unload", rpath) ELSE s0
      s2 == IF old = "absent" THEN s1
            ELSE Emit([s1 EXCEPT !.cache[rpath] = "absent"], "evict", rpath)
      loaded(s3) == IF s3.err # "none" THEN s3
                    ELSE Return(Emit(s3, "loaded", rpath), rpath)
  IN IF old = "badhook" THEN Throw(s1, "throw")
     ELSE Bind(CallSaved(s2, this, Abs(rpath), fuel), loaded)

\* reqmon_load: the forced load of rpath
reqmon_load(s, this, rpath, fuel) ==
  LET old == s.cache[rpath]
      s0 == Emit(s, "load", rpath)
      s1 == IF old \in {"hook", "badhook"} THEN Emit(s0, "unload", rpath) ELSE s0
      s2 == Emit([s1 EXCEPT !.cache[rpath] = "absent"], "evict", rpath)
      loaded(s3) == IF s3.err # "none" THEN s3
                    ELSE Return(Emit(s3, "loaded", rpath), rpath)
  IN IF old = "badhook" THEN Throw(s1, "throw")
     ELSE Bind(CallSaved(s2, this, Abs(rpath), fuel), loaded)

\* the load first and the monitoring after it, when the load returns
LoadThenMonitor(s, this, rpath, fuel) ==
  LET after(r) == IF r.err # "none" THEN r ELSE reqmon_monitor(r, rpath)
  IN Bind(reqmon_load(s, this, rpath, fuel), after)

\* "setup monitoring", then "require module"
MonitorThenLoad(s, this, rpath, fuel) ==
  reqmon_load(reqmon_monitor(s, rpath), this, rpath, fuel)

\* the replacement of Module.prototype.require
HookRequire(s, this, fpath, fuel) ==
  IF NotMonitored(s, this)
  THEN CallSaved(s, this, fpath, fuel)
  ELSE LET mfpath == IF s.parent # "none" /\ fpath.kind = "rel"
                     THEN Rebase(this, fpath) ELSE fpath
           rpath == require_resolve(mfpath)
       IN IF rpath = NoPath THEN CallSaved(s, this, fpath, fuel)
          ELSE IF reqmon_ignored(rpath, s.ignore) THEN CallSaved(s, this, mfpath, fuel)
          ELSE IF IsSelf(rpath)
               THEN IF s.cache[rpath] = "absent" THEN Throw(s, "TypeError")
                    ELSE Return(s, rpath)
          ELSE IF ~IsAbsolute(rpath) THEN CallSaved(s, this, fpath, fuel)
          ELSE IF ServedFromCache(s, rpath) THEN Return(s, rpath)
          ELSE MonitorThenLoad(s, this, rpath, fuel)

----------------------------------------------------------------------------
(* The debounce gate and the watcher callback *)

\* a cooldown of the default length, whatever timeout() has set
reqmon_timeoutFor_default(s, filename) ==
  [s EXCEPT !.timeouts[filename] = {DEFAULT_TIMEOUT}]

reqmon_timeoutFor(s, filename) == [s EXCEPT !.timeouts[filename] = {s.TIMEOUT}]

reqmon_file_has_changed_open(s, filename) == TRUE

reqmon_file_has_changed(s, filename) == s.timeouts[filename] = {}

reqmon_change_late(s, this, filename, fuel) ==
  LET changed(r) == Emit(r, "change", filename)
  IN IF ~reqmon_file_has_changed(s, filename) THEN s
     ELSE Bind(reqmon_load(reqmon_timeoutFor(s, filename), this, filename, fuel), changed)

\* a change handler that loads a second time when the load fails
reqmon_change_retry(s, this, filename, fuel) ==
  LET again(r) == IF r.err = "none" THEN r
                  ELSE reqmon_load([r EXCEPT !.err = "none"], this, filename, fuel)
  IN IF ~reqmon_file_has_changed(s, filename) THEN s
     ELSE Bind(reqmon_load(Emit(reqmon_timeoutFor(s, filename), "change", filename),
                           this, filename, fuel),
               again)

reqmon_change(s, this, filename, fuel) ==
  IF ~reqmon_file_has_changed(s, filename) THEN s
  ELSE reqmon_load(Emit(reqmon_timeoutFor(s, filename), "change", filename),
                   this, filename, fuel)

----------------------------------------------------------------------------
(* Turns of the event loop *)

\* the variables of the program take the values of the record a turn returns
Commit(s) ==
  /\ paths' = s.paths
  /\ ignore' = s.ignore
  /\ timeouts' = s.timeouts
  /\ TIMEOUT' = s.TIMEOUT
  /\ DEBUG' = s.DEBUG
  /\ CONSOLE' = s.CONSOLE
  /\ RELOAD_CHILDREN' = s.RELOAD_CHILDREN
  /\ require_' = s.require_
  /\ reqmon_require' = s.reqmon_require
  /\ parent' = s.parent
  /\ prog' = s.prog
  /\ cache' = s.cache
  /\ file' = s.file
  /\ trace' = s.trace

NoName == [kind |-> "none", id |-> "none"]

Turn(op, p, n, s) == [op |-> op, path |-> p, name |-> n, err |-> s.err, ret |-> s.ret]

\* the state when reqmon.js has been evaluated; g is the program that runs
Constructed(g) ==
  /\ prog = g
  /\ paths = [p \in Units |-> "none"]
  /\ ignore = DefaultIgnore
  /\ timeouts = [p \in Units |-> {}]
  /\ TIMEOUT = DEFAULT_TIMEOUT
  /\ DEBUG = DEFAULT_DEBUG
  /\ CONSOLE = DEFAULT_CONSOLE
  /\ RELOAD_CHILDREN = DEFAULT_RELOAD_CHILDREN
  /\ require_ = "original"
  /\ reqmon_require = "undefined"
  /\ parent = "none"
  /\ cache = [p \in Units |-> "absent"]
  /\ file = [p \in Units |-> InitialContent(p)]
  /\ started = FALSE
  /\ trace = << >>
  /\ last = [op |-> "init", path |-> "none", name |-> NoName, err |-> "none", ret |-> "none"]
  /\ since = [p \in Units |-> {}]
  /\ ran = [p \in Units |-> {}]

Init == \E o \in ChildOptions : Constructed([opts |-> o, cyclic |-> FALSE])

\* the program of the example as it stands
InitExample == Constructed([opts |-> << >>, cyclic |-> FALSE])

\* the example with a cyclic load: grandchild.js requires child.js
InitCyclic == Constructed([opts |-> << >>, cyclic |-> TRUE])

\* node main.js
RunMain ==
  /\ ~started
  /\ started' = TRUE
  /\ \E s \in {OrigRequire(St, "A", Abs("A"), MaxDepth)} :
       Commit(s) /\ last' = Turn("main", "A", NoName, s)
  /\ UNCHANGED << since, ran >>

\* the file of p is saved with content c; fs.watch reports it to p's watcher,
\* if p has an open one (an uncaught failure of the callback ends the turn)
FileSignal(p, c) ==
  /\ started
  /\ \E s0 \in {[St EXCEPT !.file[p] = c]} :
       \E s \in {IF paths[p] = "open" THEN reqmon_change(s0, parent, p, MaxDepth) ELSE s0} :
         /\ Commit(s)
         /\ last' = Turn("signal", p, NoName, s)
         /\ ran' = [q \in Units |->
                      IF \E i \in 1..Len(s.trace) : s.trace[i] = Ev("exec", q)
                      THEN {[t |-> 0, T |-> TIMEOUT]} ELSE ran[q]]
  /\ since' = IF paths[p] = "open" /\ timeouts[p] = {}
              THEN [since EXCEPT ![p] = {[t |-> 0, T |-> TIMEOUT]}]
              ELSE since
  /\ UNCHANGED started

\* a loaded unit calls require(n) from one of its functions
DynRequire(u, n) ==
  /\ started
  /\ cache[u] \notin {"absent", "loading"}
  /\ \E s \in {CallRequire(St, u, n, MaxDepth)} :
       Commit(s) /\ last' = Turn("require", u, n, s)
  /\ UNCHANGED << started, since, ran >>

\* a public call by the program, which holds the instance once reqmon.js is loaded
Api(op, r) ==
  /\ started
  /\ cache["R"] # "absent"
  /\ \E s \in {r} : Commit(s) /\ last' = Turn(op, "none", NoName, s)
  /\ UNCHANGED << started, since, ran >>

ApiTimeout(tm) == Api("timeout", api_timeout(St, tm))
ApiDebug(b) == Api("debug", api_debug(St, b))
ApiConsole(b) == Api("console", api_console(St, b))
ApiReloadChildren(b) == Api("reload_children", api_reload_children(St, b))
ApiIgnore(list) ==
  /\ Len(api_ignore(St, list).ignore) <= MaxIgnore
  /\ Api("ignore", api_ignore(St, list))
ApiWatch(o) ==
  /\ Len(api_watch(St, o).ignore) <= MaxIgnore
  /\ Api("watch", api_watch(St, o))
ApiUnwatch == Api("unwatch", api_unwatch(St))

\* a cooldown timer whose time has come runs its callback
TimerFire(p) ==
  /\ timeouts[p] = {0}
  /\ timeouts' = [timeouts EXCEPT ![p] = {}]
  /\ trace' = << >>
  /\ last' = Turn("timer", p, NoName, St)
  /\ UNCHANGED << paths, ignore, TIMEOUT, DEBUG, CONSOLE, RELOAD_CHILDREN,
                  require_, reqmon_require, parent, prog, cache, file, started,
                  since, ran >>

\* a record of when something last happened, d ms later; it is dropped once
\* more than its T ms have passed
Aged(h, d) == {[t |-> a.t + d, T |-> a.T] : a \in {b \in h : b.t + d <= b.T}}

\* d ms pass; no timer is overrun
Tick(d) ==
  /\ started
  /\ \A p \in Units : \A r \in timeouts[p] : r >= d
  /\ \E p \in Units : since[p] # {} \/ ran[p] # {}
  /\ timeouts' = [p \in Units |-> {r - d : r \in timeouts[p]}]
  /\ since' = [p \in Units |-> Aged(since[p], d)]
  /\ ran' = [p \in Units |-> Aged(ran[p], d)]
  /\ trace' = << >>
  /\ last' = Turn("tick", "none", NoName, St)
  /\ UNCHANGED << paths, ignore, TIMEOUT, DEBUG, CONSOLE, RELOAD_CHILDREN,
                  require_, reqmon_require, parent, prog, cache, file, started >>

----------------------------------------------------------------------------
(* Specifications.  Each lets the environment make every kind of turn the   *)
(* properties checked under it depend on.                                  *)

\* everything at once
Next ==
  \/ RunMain
  \/ \E p \in Units : \E c \in Contents(p) : FileSignal(p, c)
  \/ \E u \in Units \ {"R"} : \E n \in RequestNames : DynRequire(u, n)
  \/ \E tm \in TimeoutChoices : ApiTimeout(tm)
  \/ \E b \in BOOLEAN : ApiDebug(b)
  \/ \E b \in BOOLEAN : ApiConsole(b)
  \/ \E b \in BOOLEAN : ApiReloadChildren(b)
  \/ \E l \in IgnoreArgs : ApiIgnore(l)
  \/ \E o \in WatchOptions : ApiWatch(o)
  \/ ApiUnwatch
  \/ \E p \in Units : TimerFire(p)
  \/ \E d \in TickSteps : Tick(d)

Spec == Init /\ [][Next]_vars

\* the debounce gate: saves of every file, the passing of time, timeout()
NextGate ==
  \/ RunMain
  \/ \E p \in Units : FileSignal(p, file[p])
  \/ \E c \in {"hook", "throw"} : FileSignal("D", c)
  \/ \E tm \in TimeoutChoices : ApiTimeout(tm)
  \/ \E b \in BOOLEAN : ApiReloadChildren(b)
  \/ \E p \in Units : TimerFire(p)
  \/ \E d \in TickSteps : Tick(d)

SpecGate == InitExample /\ [][NextGate]_vars

\* reloading: saves of every file with every content, the reload-children
\* flag, load requests at run time, the passing of time
NextReload ==
  \/ RunMain
  \/ \E p \in Units : \E c \in Contents(p) : FileSignal(p, c)
  \/ \E u \in {"A", "B"} : \E n \in {Rel("D"), Bare("N")} : DynRequire(u, n)
  \/ \E b \in BOOLEAN : ApiReloadChildren(b)
  \/ \E p \in Units : TimerFire(p)
  \/ \E d \in TickSteps : Tick(d)

SpecReload == InitExample /\ [][NextReload]_vars

\* the scope of tracking: load requests of tracked and untracked units, the
\* ignore list, the reload-children flag, failing loads
NextScope ==
  \/ RunMain
  \/ \E p \in Units : FileSignal(p, file[p])
  \/ \E c \in {"hook", "throw"} : FileSignal("D", c)
  \/ \E u \in {"A", "B", "D"} : \E n \in RequestNames : DynRequire(u, n)
  \/ \E b \in BOOLEAN : ApiReloadChildren(b)
  \/ \E l \in IgnoreArgs : ApiIgnore(l)
  \/ \E o \in {o \in WatchOptions : "timeout" \notin DOMAIN o} : ApiWatch(o)

SpecScope == Init /\ [][NextScope]_vars

\* the public calls in every order, with load requests between them
NextApi ==
  \/ RunMain
  \/ \E u \in {"A", "D"} : \E n \in {Rel("C"), Rel("R")} : DynRequire(u, n)
  \/ \E tm \in {500} : ApiTimeout(tm)
  \/ \E b \in BOOLEAN : ApiDebug(b)
  \/ \E b \in BOOLEAN : ApiConsole(b)
  \/ \E b \in BOOLEAN : ApiReloadChildren(b)
  \/ \E l \in IgnoreArgs : ApiIgnore(l)
  \/ \E o \in WatchOptions : ApiWatch(o)
  \/ ApiUnwatch

SpecApi == Init /\ [][NextApi]_vars

\* the cooldown entries: saves of the tracked files, timeout(), unwatch(),
\* the passing of time.  Time does pass, and a timer whose time has come runs.
NextTimer ==
  \/ RunMain
  \/ \E p \in {"B", "D"} : FileSignal(p, file[p])
  \/ \E tm \in TimeoutChoices : ApiTimeout(tm)
  \/ ApiUnwatch
  \/ \E p \in Units : TimerFire(p)
  \/ \E d \in TickSteps : Tick(d)

SpecTimer ==
  /\ InitExample /\ [][NextTimer]_vars
  /\ SF_vars(\E d \in TickSteps : Tick(d))
  /\ \A p \in Units : WF_vars(TimerFire(p))

\* failing loads: saves that leave a file failing at load, load requests at
\* run time for units tracked and not yet tracked, the reload-children flag,
\* the ignore list emptied
NextFail ==
  \/ RunMain
  \/ \E p \in {"B", "C"} : \E c \in {"ok", "throw"} : FileSignal(p, c)
  \/ \E c \in Contents("D") : FileSignal("D", c)
  \/ \E u \in {"A", "B"} : \E n \in {Rel("C"), Rel("D")} : DynRequire(u, n)
  \/ \E b \in BOOLEAN : ApiReloadChildren(b)
  \/ ApiIgnore(<< NullArg >>)

SpecFail == InitExample /\ [][NextFail]_vars

\* cyclic loads: the example in which grandchild.js requires child.js, saves
\* of both files, the reload-children flag, load requests at run time
NextCycle ==
  \/ RunMain
  \/ \E p \in {"B", "D"} : FileSignal(p, file[p])
  \/ \E u \in {"A", "B"} : \E n \in {Rel("B"), Rel("D")} : DynRequire(u, n)
  \/ \E b \in BOOLEAN : ApiReloadChildren(b)
  \/ \E p \in Units : TimerFire(p)
  \/ \E d \in TickSteps : Tick(d)

SpecCycle == InitCyclic /\ [][NextCycle]_vars

\* the ignore list: ignore() with every argument list, and the load requests
\* the list decides about
NextIgnore ==
  \/ RunMain
  \/ \E l \in IgnoreLists : ApiIgnore(l)
  \/ \E u \in {"B", "D"} : \E n \in {Rel("C"), Bare("N")} : DynRequire(u, n)

SpecIgnore == Init /\ [][NextIgnore]_vars

----------------------------------------------------------------------------
(* Properties *)

\* how many times step e of path p happened in the turn tr
Count(tr, e, p) == Cardinality({i \in 1..Len(tr) : tr[i] = Ev(e, p)})

\* the step is the delivery of a file-change signal to the open watcher of p
SignalStep(p) == last'.op = "signal" /\ last'.path = p /\ paths[p] = "open"

\* C1: a file-change signal for a tracked path p that comes less than T ms
\* after the last accepted one (T the cooldown configured when that one was
\* accepted) is dropped, with no "change" event and no reload; one that comes
\* more than T ms after it, or when none was accepted before, is accepted and
\* gives exactly one "change" event and one reload of p.
C1_Debounce ==
  [][\A p \in Units : SignalStep(p) =>
        /\ (\E a \in since[p] : a.t < a.T) =>
              /\ Count(trace', "change", p) = 0
              /\ Count(trace', "load", p) = 0
        /\ since[p] = {} =>
              /\ Count(trace', "change", p) = 1
              /\ Count(trace', "load", p) = 1]_vars

\* a signal for a tracked path was dropped strictly inside the cooldown
C1_Witness ==
  /\ last.op = "signal" /\ last.path \in Units
  /\ paths[last.path] = "open"
  /\ trace = << >>
  /\ \E a \in since[last.path] : a.t > 0 /\ a.t < a.T

\* the step is a load request by unit u through the replacement loader
RequestStep(u) == last'.op = "require" /\ last'.path = u /\ require_ = "hook"

\* the units that were executed in the turn tr
Executed(tr) == {q \in Units : Count(tr, "exec", q) > 0}

\* C2 as claimed: a load request by a unit that is not in the Tracked-Path
\* Set is handed to the saved loader unmodified and adds no path to the set.
C2_Claim ==
  [][\A u \in Units : (RequestStep(u) /\ paths[u] = "none") =>
        /\ trace' # << >> /\ trace'[1] = Delegated(last'.name)
        /\ paths' = paths]_vars

\* C2 as amended: such a request is handed to the saved loader unmodified,
\* and a path is added to the set in its turn only when the saved loader
\* executes a unit that was in the set already (whose own load requests add it).
C2_Scoping ==
  [][\A u \in Units : (RequestStep(u) /\ paths[u] = "none") =>
        /\ trace' # << >> /\ trace'[1] = Delegated(last'.name)
        /\ paths' # paths => \E q \in Executed(trace') : paths[q] # "none"]_vars

\* a unit outside the set asked for a unit, and the saved loader executed one
C2_Witness ==
  /\ last.op = "require" /\ last.path \in Units
  /\ paths[last.path] = "none"
  /\ require_ = "hook"
  /\ trace # << >> /\ trace[1] = Delegated(last.name)
  /\ Executed(trace) # {}

\* C3 as claimed: a path that the ignore list matches is never added to the
\* Tracked-Path Set, neither by watch() nor by a load request.
C3_Claim ==
  [][\A p \in Units : (reqmon_ignored(p, ignore') /\ paths[p] = "none")
                          => paths'[p] = "none"]_vars

\* C8 as claimed: when a load request of a tracked unit returns, the unit it
\* asked for is in the Tracked-Path Set, unless its path is not absolute, is
\* matched by the ignore list or is reqmon.js.
C8_Claim ==
  [][\A u \in Units : (RequestStep(u) /\ paths[u] # "none" /\ last'.err = "none") =>
        LET rpath == HostResolve(u, last'.name)
        IN (IsAbsolute(rpath) /\ ~reqmon_ignored(rpath, ignore) /\ rpath # "R")
             => paths'[rpath] # "none"]_vars

\* the step is a file change of p that the debounce gate accepts
AcceptedStep(p) == SignalStep(p) /\ Count(trace', "change", p) = 1

C5_Order ==
  [][\A p \in Units : AcceptedStep(p) =>
        LET tr == trace'
            hooked == cache[p] \in {"hook", "badhook"}
            k == IF hooked THEN 4 ELSE 3
        IN /\ Len(tr) >= 2 /\ tr[1] = Ev("change", p) /\ tr[2] = Ev("load", p)
           /\ Count(tr, "unload", p) = IF hooked THEN 1 ELSE 0
           /\ hooked => Len(tr) >= 3 /\ tr[3] = Ev("unload", p)
           /\ \A i, j \in 1..Len(tr) :
                 (tr[i] = Ev("unload", p) /\ tr[j] = Ev("evict", p)) => i < j
           /\ cache[p] # "badhook" =>
                 /\ Len(tr) >= k + 2
                 /\ tr[k] = Ev("evict", p)
                 /\ tr[k + 1] = Delegated(Abs(p))
                 /\ tr[k + 2] = Ev("exec", p)
           /\ Count(tr, "evict", p) <= 1 /\ Count(tr, "exec", p) <= 1
           /\ IF last'.err = "none"
              THEN tr[Len(tr)] = Ev("loaded", p) /\ Count(tr, "loaded", p) = 1
              ELSE Count(tr, "loaded", p) = 0]_vars

\* a unit with an unload hook was reloaded after a change of its file
C5_Witness ==
  /\ last.op = "signal" /\ last.path \in Units /\ last.err = "none"
  /\ Len(trace) >= 6
  /\ trace[1] = Ev("change", last.path)
  /\ trace[3] = Ev("unload", last.path)
  /\ trace[Len(trace)] = Ev("loaded", last.path)

\* C6: a file change of a unit that is not in the Tracked-Path Set, as
\* main.js and sister.js never are, has no effect: no "change" event, no
\* eviction, no execution.
C6_Untracked ==
  (last.op = "signal" /\ (last.path \in {"A", "C"} \/ paths[last.path] = "none"))
    => trace = << >>

\* sister.js was saved while the hook was installed
C6_Witness ==
  /\ last.op = "signal" /\ last.path = "C"
  /\ require_ = "hook" /\ cache["C"] = "ok" /\ paths["B"] = "open"

\* C7 as claimed: a file change makes a unit execute only if no file change
\* made that unit execute less than the cooldown before.
C7_Claim ==
  [][\A q \in Units : (last'.op = "signal" /\ Count(trace', "exec", q) > 0)
                          => \A a \in ran[q] : a.t >= a.T]_vars

\* C9 as claimed: watch() while the replacement loader is installed changes
\* neither the installed loader, nor the saved one, nor the Tracked-Path Set,
\* nor the ignore list, nor the configuration.
C9_Claim ==
  [][(last'.op = "watch" /\ require_ = "hook") =>
        UNCHANGED << require_, reqmon_require, paths, ignore,
                     TIMEOUT, DEBUG, CONSOLE, RELOAD_CHILDREN >>]_vars

\* C10 as claimed: after unwatch() every stored watcher is closed and list()
\* is empty.
C10_Claim ==
  last.op = "unwatch" =>
    /\ \A p \in Units : paths[p] \in {"none", "closed"}
    /\ api_list(St) = {}

\* C11 as claimed: a path is a key of the Tracked-Path Set if and only if a
\* live (open) watcher exists for it; the set stores one watcher per key, so
\* this says that every stored watcher is open.
C11_Claim ==
  \A p \in Units : paths[p] # "none" <=> paths[p] = "open"

\* the step is a load request of a tracked unit u that the replacement
\* loader resolves to reqmon.js and does not hand on as ignored
SelfRequestStep(u) ==
  /\ RequestStep(u) /\ ~NotMonitored(St, u)
  /\ require_resolve(Rebase(u, last'.name)) = "R"
  /\ ~reqmon_ignored("R", ignore)

\* C12 as claimed: a load request that the replacement loader resolves to
\* reqmon.js restores the cooldown, the debug flag, the console flag and the
\* reload-children flag to their defaults.
C12_Claim ==
  [][\A u \in Units : SelfRequestStep(u) =>
        /\ TIMEOUT' = DEFAULT_TIMEOUT
        /\ DEBUG' = DEFAULT_DEBUG
        /\ CONSOLE' = DEFAULT_CONSOLE
        /\ RELOAD_CHILDREN' = DEFAULT_RELOAD_CHILDREN]_vars

\* the step is a load request made while the replacement loader is
\* installed, for a name that resolves to reqmon.js
SelfLoadStep == last'.op = "require" /\ require_ = "hook" /\ last'.name.id = "R"

\* C13: no turn evicts reqmon.js from the cache or executes it again once it
\* is loaded, and a load request for reqmon.js made while the replacement
\* loader is installed returns the cached value.
C13_SelfGuard ==
  [][/\ cache["R"] # "absent" =>
          /\ cache'["R"] = cache["R"]
          /\ Count(trace', "evict", "R") = 0 /\ Count(trace', "load", "R") = 0
          /\ Count(trace', "exec", "R") = 0
     /\ SelfLoadStep => last'.err = "none" /\ last'.ret = "R"]_vars

\* a tracked unit asked for reqmon.js with the reload-children flag set and
\* reqmon.js not ignored, and got it from the cache
C13_Witness ==
  /\ last.op = "require" /\ last.name.id = "R" /\ last.ret = "R"
  /\ last.path \in Units /\ paths[last.path] = "open"
  /\ require_ = "hook" /\ RELOAD_CHILDREN
  /\ ~reqmon_ignored("R", ignore)
  /\ trace = << >>

\* C14 as claimed: after a call of watch() that installs the replacement
\* loader (the first one, made by child.js as it loads, or one made after
\* unwatch()), the unit that loaded reqmon.js and calls watch() is in the
\* Tracked-Path Set with an open watcher.
C14_Claim ==
  [][/\ (last'.op = "main" /\ last'.err = "none") => paths'[parent'] = "open"
     /\ (last'.op = "watch" /\ reqmon_require = "undefined")
            => paths'[parent] = "open"]_vars

\* C15: ignore(null, x1, ..., xn) leaves the ignore list <<x1, ..., xn>>,
\* whatever it held; ignore(x1, ..., xn) with a first argument other than
\* null leaves the previous list followed by x1, ..., xn.
C15_Ignore ==
  [][\A l \in IgnoreLists : ApiIgnore(l) =>
        ignore' = IF Len(l) > 0 /\ l[1].kind = "null" THEN Tail(l) ELSE ignore \o l]_vars

\* ignore(null, x1, x2) has replaced a list that held other patterns
C15_Witness ==
  /\ last.op = "ignore"
  /\ ignore = << [kind |-> "fn", val |-> {"D", "R"}], [kind |-> "str", val |-> "C"] >>

\* the public calls that return the instance
ChainedOps == {"timeout", "debug", "console", "reload_children", "ignore",
               "watch", "unwatch"}

\* C16: every public call but list() returns the instance, watch() also
\* when the replacement loader is installed already.
C16_Chaining ==
  last.op \in ChainedOps => last.err = "none" /\ last.ret = "reqmon"

\* watch() was called and returned the instance while the loader installed
\* by child.js was still in place (no unwatch() has closed its watcher)
C16_Witness ==
  /\ last.op = "watch" /\ last.ret = "reqmon"
  /\ require_ = "hook" /\ paths["B"] = "open"

\* C17 as claimed: every load and reload through the replacement loader
\* comes to an end by itself, cyclic loads included and whatever the
\* reload-children flag: no turn goes on loading until the stack is exhausted.
C17_Claim ==
  last.op \in {"main", "signal", "require"} => last.err # "overflow"

\* in the step the replacement loader loads p, and p fails as it executes
HookLoadFails(p) ==
  /\ last'.op \in {"signal", "require"} /\ require_ = "hook"
  /\ Count(trace', "load", p) > 0 /\ Count(trace', "exec", p) > 0
  /\ file'[p] = "throw"

\* C18: when the replacement loader loads p (a cache miss or a forced
\* reload) and p fails as it executes, the error reaches the caller, p has a
\* watcher all the same, so has every unit executed in the turn that the
\* ignore list does not match, and no "loaded" is emitted for p.
C18_Failure ==
  [][\A p \in Units : HookLoadFails(p) =>
        /\ last'.err = "throw"
        /\ paths'[p] = "open"
        /\ Count(trace', "loaded", p) = 0
        /\ \A q \in Executed(trace') :
              ~reqmon_ignored(q, ignore) => paths'[q] = "open"]_vars

\* a unit that was not tracked was loaded by the replacement loader and
\* failed as it executed
C18_Witness ==
  /\ last.op = "require" /\ last.err = "throw"
  /\ \E p \in Units :
        /\ Count(trace, "monitor", p) = 1 /\ Count(trace, "load", p) = 1
        /\ Count(trace, "exec", p) = 1 /\ file[p] = "throw"
        /\ paths[p] = "open" /\ cache[p] = "absent"

\* C19 as claimed: every call of the reloader for p evicts the cache entry
\* of p, whether or not there is one and whether the unload hook of the
\* outgoing value returns or throws.
C19_Claim ==
  [][\A p \in Units : Count(trace', "evict", p) = Count(trace', "load", p)]_vars

\* C19 as amended: a call of the reloader for p whose outgoing value has no
\* unload hook, or one that returns, evicts the cache entry of p next,
\* whether or not there is one; when the unload hook throws, the error ends
\* the turn before the eviction and the outgoing value stays in the cache.
C19_Evict ==
  [][\A p \in Units : \A i \in 1..Len(trace') :
        trace'[i] = Ev("load", p) =>
          LET tr == trace'
              hooked == i < Len(tr) /\ tr[i + 1] = Ev("unload", p)
              j == IF hooked THEN i + 2 ELSE i + 1
          IN IF hooked /\ j > Len(tr)
             THEN /\ last'.err = "throw"
                  /\ cache'[p] = "badhook"
                  /\ Count(tr, "evict", p) < Count(tr, "load", p)
             ELSE j <= Len(tr) /\ tr[j] = Ev("evict", p)]_vars

\* grandchild.js was reloaded after a change while the cache held no entry
\* for it (its hook was not called), and the eviction step was taken
C19_Witness ==
  /\ last.op = "signal" /\ last.path = "D"
  /\ Len(trace) >= 3
  /\ trace[2] = Ev("load", "D") /\ trace[3] = Ev("evict", "D")

\* p is tracked and is not in the cache: its last load failed as it executed
FailedBefore(p) == paths[p] # "none" /\ cache[p] = "absent"

\* the turn loads or executes p
Attempts(tr, p) == Count(tr, "load", p) + Count(tr, "exec", p)

\* C20 as claimed: after a failed reload of p no load of p is attempted
\* until a file-change signal is accepted.
C20_Claim ==
  [][\A p \in Units : (FailedBefore(p) /\ Attempts(trace', p) > 0)
                          => \E q \in Units : AcceptedStep(q)]_vars

\* C20 as amended: a reload of p that throws is attempted once in its turn
\* and "loaded" is not emitted for it; afterwards p is loaded again only in
\* the turn of an accepted file-change signal or of a load request of the
\* program: a dropped signal, a timer and a public call load nothing.
C20_NoRetry ==
  [][/\ \A p \in Units : (AcceptedStep(p) /\ last'.err = "throw") =>
            /\ Count(trace', "load", p) = 1 /\ Count(trace', "exec", p) <= 1
            /\ Count(trace', "loaded", p) = 0
     /\ \A p \in Units : Attempts(trace', p) > 0 =>
            \/ last'.op \in {"main", "require"}
            \/ \E q \in Units : AcceptedStep(q)]_vars

\* the reload of a changed file failed as the file executed, after one attempt
C20_Witness ==
  /\ last.op = "signal" /\ last.err = "throw" /\ last.path \in Units
  /\ Count(trace, "load", last.path) = 1 /\ Count(trace, "exec", last.path) = 1
  /\ file[last.path] = "throw" /\ cache[last.path] = "absent"

\* what a step may do to the cooldown entry of p
CooldownStep(p) ==
  /\ (timeouts[p] = {} /\ timeouts'[p] # {}) =>
        AcceptedStep(p) /\ timeouts'[p] = {TIMEOUT}
  /\ (timeouts[p] # {} /\ timeouts'[p] # timeouts[p]) =>
        \/ /\ last'.op = "timer" /\ last'.path = p /\ timeouts'[p] = {}
           /\ \E a \in since[p] : a.t = a.T
        \/ last'.op = "tick" /\ timeouts'[p] # {}
  /\ timeouts'[p] # {} =>
        \E a \in since'[p] : \E r \in timeouts'[p] : a.t + r = a.T
  /\ (SignalStep(p) /\ timeouts[p] = {}) => Count(trace', "change", p) = 1

\* C21: the cooldown entry of p is created only by an accepted change of p,
\* with the cooldown configured then; only its own timer removes it, when
\* that time has passed, and it does; a suppressed signal, timeout() and
\* unwatch() leave it as it is; a signal for p that finds no entry is
\* accepted.
C21_Cooldown ==
  /\ [][\A p \in Units : CooldownStep(p)]_vars
  /\ \A p \in Units : (timeouts[p] # {}) ~> (timeouts[p] = {})

\* an entry is running that was created under a cooldown other than the one
\* configured now, after unwatch() and a suppressed signal or the passing
\* of time
C21_Witness ==
  /\ last.op = "unwatch"
  /\ \E p \in Units : \E a \in since[p] :
        /\ timeouts[p] # {} /\ a.T # TIMEOUT /\ a.t > 0

\* the path a request of unit u in the step asks for can be tracked and is
\* in the cache
CachedRequestStep(u, rpath) ==
  /\ RequestStep(u) /\ paths[u] # "none"
  /\ rpath = HostResolve(u, last'.name)
  /\ IsAbsolute(rpath) /\ ~reqmon_ignored(rpath, ignore) /\ rpath # "R"
  /\ cache[rpath] # "absent"

C23_Claim ==
  /\ require_ # "undefined"
  /\ reqmon_require # "undefined" => require_ = "hook" /\ reqmon_require = "original"
  /\ reqmon_require = "undefined" => require_ = "original"

====
